---- MODULE Spec2Model ----
(***************************************************************************)
(* Model of agents/gemini_utils.py (multi-key, multi-model fallback router *)
(* with a persisted, date-stamped quota state) and of the start-up path of *)
(* main.py (module import followed by the optional --reset).               *)
(***************************************************************************)
EXTENDS Integers, Sequences, FiniteSets, TLC

\* ---------------------------------------------------------------- bounds
MaxKeys == 2          \* largest credential pool a process is started with
MaxDay == 2           \* UTC days 1..MaxDay
MaxRetriesIn == 2     \* max_retries arguments are drawn from 1..MaxRetriesIn
MaxCalls == 2         \* gemini_with_retry calls in a behaviour
MaxStarts == 2        \* process launches
MaxDelay == 5         \* largest retryDelay (seconds) carried by an error
MaxMarks == 3         \* direct mark_exhausted calls in a behaviour
MaxDeepRetries == 4   \* the max_retries argument of the calls of BackoffSpec
MaxSlots == 3         \* environment slots that KeysSpec gives arbitrary values
MaxValLen == 2        \* longest slot value (characters) in KeysSpec

\* ------------------------------------------------------ program constants
FALLBACK_MODELS == <<"gemini-2.0-flash-lite", "gemini-2.0-flash", "gemini-2.5-flash">>

MAX_RETRIES == 2

\* A per-call override of the chain (the `models` argument); the empty
\* sequence stands for models=None.
OverrideChain == <<"gemini-2.5-flash", "gemini-2.0-flash">>

ChainArgs == {<<>>, OverrideChain}

\* max_retries arguments: the default and the values up to the bound
RetryArgs == {MAX_RETRIES} \cup (1..MaxRetriesIn)

Procs == {1, 2}

\* Processes that run one after another in Spec (single-process assumption).
SeqProcs == {1}

VARIABLES
    today,        \* current UTC day (datetime.now(timezone.utc))
    quota_file,   \* contents of data/quota_state.json
    quota_state,  \* per process: _quota_state._state
    pc,           \* per process: "off" | "idle" (imported, between calls) | "run"
    api_keys,     \* per process: number of distinct keys in the environment
    rt,           \* per process: locals of the running gemini_with_retry call
    outcome,      \* per process: how the last gemini_with_retry call ended
    last,         \* per process: the last attempt made by the current call
    store_io,     \* per process: operations performed on the quota file so far
    ncalls,       \* history: number of calls made so far (gemini_with_retry, or the store)
    markedToday,  \* history: pairs marked exhausted during the current UTC day
    nStarts,      \* history: number of process launches
    client,       \* per process: the calling agent's self.client handle
    environ,      \* per process: GEMINI_API_KEY, GEMINI_API_KEY_2 .. _10
    keys          \* per process: the list _load_api_keys returns

vars == <<today, quota_file, quota_state, pc, api_keys, rt, outcome, last,
          store_io, ncalls, markedToday, nStarts, client, environ, keys>>

Range(s) == {s[i] : i \in 1..Len(s)}

\* ------------------------------------------------------------ key loading
\* GEMINI_API_KEY and GEMINI_API_KEY_2 .. GEMINI_API_KEY_10
NumSlots == 10

\* A slot is unset (os.getenv gives None) or holds a string, here a
\* sequence of characters; " " stands for any whitespace.
Chars == {" ", "a"}

Unset == [set |-> FALSE, val |-> <<>>]

SlotValues ==
    {Unset} \cup
    {[set |-> TRUE, val |-> v] : v \in UNION {[1..n -> Chars] : n \in 0..MaxValLen}}

\* An environment is written as the sequence of its leading slots; the
\* slots after them are unset.
getenv(env, i) == IF i \in DOMAIN env THEN env[i] ELSE Unset

NoEnv == <<>>

\* environments whose first MaxSlots slots hold any value
Envs == [1..MaxSlots -> SlotValues]

\* the environment with n different keys in its first n slots
KeyedEnv(n) == [i \in 1..n |-> [set |-> TRUE, val |-> [j \in 1..i |-> "a"]]]

KeyedEnvs == {KeyedEnv(n) : n \in 0..MaxKeys}

RECURSIVE lstrip(_)
lstrip(v) == IF v # <<>> /\ Head(v) = " " THEN lstrip(Tail(v)) ELSE v

RECURSIVE rstrip(_)
rstrip(v) ==
    IF v # <<>> /\ v[Len(v)] = " " THEN rstrip(SubSeq(v, 1, Len(v) - 1)) ELSE v

\* str.strip
strip(v) == rstrip(lstrip(v))

\* mutant of LoadFrom: the `not in seen` test is missing
RECURSIVE LoadFrom_NoDedup(_, _, _)
LoadFrom_NoDedup(env, i, acc) ==
    IF i > NumSlots THEN acc
    ELSE LET key == getenv(env, i)
         IN  IF key.set /\ key.val # <<>> /\ strip(key.val) # <<>>
             THEN LoadFrom_NoDedup(env, i + 1, Append(acc, strip(key.val)))
             ELSE LoadFrom_NoDedup(env, i + 1, acc)

\* The loop of _load_api_keys from candidate i on; acc is `keys` (whose
\* elements are also `seen`).
RECURSIVE LoadFrom(_, _, _)
LoadFrom(env, i, acc) ==
    IF i > NumSlots THEN acc
    ELSE LET key == getenv(env, i)
         IN  IF /\ key.set /\ key.val # <<>> /\ strip(key.val) # <<>>
                /\ strip(key.val) \notin Range(acc)
             THEN LoadFrom(env, i + 1, Append(acc, strip(key.val)))
             ELSE LoadFrom(env, i + 1, acc)

\* _load_api_keys: the list it builds; it raises when the list is empty
load_api_keys(env) == LoadFrom(env, 1, <<>>)

\* ------------------------------------------------------------ quota state
\* _QuotaState._fresh
Fresh(day) == [date |-> day, exhausted |-> <<>>]

MissingFile == [kind |-> "missing", date |-> 0, exhausted |-> <<>>]

CorruptFile == [kind |-> "corrupt", date |-> 0, exhausted |-> <<>>]

\* A file that parses as JSON but not to an object (`[]`, `null`, ...):
\* state.get raises AttributeError, which _load does not catch.
UnusableFile == [kind |-> "unusable", date |-> 0, exhausted |-> <<>>]

\* _QuotaState._load raises instead of returning a state
LoadFails(file) == file.kind = "unusable"

\* mutant of Load: a file of another day is restamped, its entries kept
Load_CarryOver(file, day) ==
    IF file.kind # "ok" THEN Fresh(day)
    ELSE [date |-> day, exhausted |-> file.exhausted]

\* _QuotaState._load: a missing or unparsable file, or a file of another
\* day, gives a fresh state; otherwise the file's state.
Load(file, day) ==
    IF file.kind # "ok" THEN Fresh(day)
    ELSE IF file.date # day THEN Fresh(day)
    ELSE [date |-> file.date, exhausted |-> file.exhausted]

\* mutant of Save: the file is written without the entries
Save_Empty(st) == [kind |-> "ok", date |-> st.date, exhausted |-> <<>>]

\* _QuotaState._save: the file becomes the in-memory state, date included.
Save(st) == [kind |-> "ok", date |-> st.date, exhausted |-> st.exhausted]

\* mutant of is_exhausted: the membership test never finds the pair
is_exhausted_Never(st, key_index, model) == FALSE

\* _QuotaState.is_exhausted
is_exhausted(st, key_index, model) == <<key_index, model>> \in Range(st.exhausted)

\* mutant of mark_exhausted: the list is replaced by the new entry instead
\* of being appended to
mark_exhausted_Replace(st, key_index, model) ==
    IF is_exhausted(st, key_index, model) THEN st
    ELSE [st EXCEPT !.exhausted = <<<<key_index, model>>>>]

\* _QuotaState.mark_exhausted, in-memory effect
mark_exhausted(st, key_index, model) ==
    IF is_exhausted(st, key_index, model) THEN st
    ELSE [st EXCEPT !.exhausted = Append(@, <<key_index, model>>)]

\* mutant of mark_file: the file is written before the entry is appended
mark_file_Stale(file, st, key_index, model) ==
    IF is_exhausted(st, key_index, model) THEN file
    ELSE Save(st)

\* mutant of mark_file: the new entry is added to what the file holds
mark_file_Append(file, st, key_index, model) ==
    IF is_exhausted(st, key_index, model) THEN file
    ELSE IF file.kind = "ok" /\ file.date = st.date
         THEN [file EXCEPT !.exhausted = Append(@, <<key_index, model>>)]
    ELSE Save(mark_exhausted(st, key_index, model))

\* _QuotaState.mark_exhausted, effect on the file (saved only on a new entry)
mark_file(file, st, key_index, model) ==
    IF is_exhausted(st, key_index, model) THEN file
    ELSE Save(mark_exhausted(st, key_index, model))

\* _QuotaState.summary: total, dead and the "available" figure it prints
summary(st, nkeys, chain) ==
    [total |-> nkeys * Len(chain),
     exhausted |-> Len(st.exhausted),
     available |-> nkeys * Len(chain) - Len(st.exhausted)]

NoSummary == [total |-> 0, exhausted |-> 0, available |-> 0]

\* ------------------------------------------------------------- classifier
\* retryDelay values carried by the errors of the model
Delays == {-1, 0, MaxDelay}

\* An error text is represented by the signals the router tests on it.
Errors ==
    {e \in [nf : BOOLEAN,        \* "404" or "NOT_FOUND" in err
            rl : BOOLEAN,        \* "429" or "RESOURCE_EXHAUSTED" in err
            quota : BOOLEAN,     \* "quota" in err.lower()
            limit : BOOLEAN,     \* "limit" in err.lower()
            limit0 : BOOLEAN,    \* re.search(r"limit['\": ]+0\b", err)
            exceeded : BOOLEAN,  \* "exceeded" in err.lower()
            delay : Delays]      \* retryDelay seconds, -1 when absent
        : e.limit0 => e.limit}

is_quota(e) == e.rl \/ (e.quota /\ e.limit)

is_daily(e) == e.limit0 \/ (e.quota /\ e.exceeded)

\* mutant of Classify: the quota tests come before the not-found test
Classify_QuotaFirst(e) ==
    IF is_quota(e) /\ is_daily(e) THEN "DailyExhausted"
    ELSE IF is_quota(e) THEN "RateLimited"
    ELSE IF e.nf THEN "Dead"
    ELSE "Fatal"

\* the handler's if-cascade
Classify(e) ==
    IF e.nf THEN "Dead"
    ELSE IF ~is_quota(e) THEN "Fatal"
    ELSE IF is_daily(e) THEN "DailyExhausted"
    ELSE "RateLimited"

\* the seconds added to a retryDelay the server suggested
RetryBuffer == 2

\* mutant of Wait: the suggested delay is slept without the added seconds
Wait_NoBuffer(e, attempt) == IF e.delay >= 0 THEN e.delay ELSE 10 * attempt

\* wait before the retry that follows a rate-limited attempt
Wait(e, attempt) == IF e.delay >= 0 THEN e.delay + 2 ELSE 10 * attempt

ErrorsOf(cls) == {e \in Errors : Classify(e) = cls}

\* The three signals of an error the handler goes by: the not-found test,
\* is_quota, and is_daily (which is looked at for quota errors only).
Signals(e) ==
    [nf |-> e.nf, is_quota |-> is_quota(e),
     is_daily |-> is_quota(e) /\ is_daily(e)]

NoErr == [nf |-> FALSE, is_quota |-> FALSE, is_daily |-> FALSE]

\* mutant of FatalErrors: every error without a not-found signal is
\* re-raised
FatalErrors_AllButNotFound == {e \in Errors : ~e.nf}

FatalErrors == ErrorsOf("Fatal")

DeadErrors == ErrorsOf("Dead")

DailyErrors == ErrorsOf("DailyExhausted")

RateLimitedErrors == ErrorsOf("RateLimited")

FatalSignals == {Signals(e) : e \in FatalErrors}

DeadSignals == {Signals(e) : e \in DeadErrors}

DailySignals == {Signals(e) : e \in DailyErrors}

RateLimitedSignals == {Signals(e) : e \in RateLimitedErrors}

\* one rate-limited error for each retryDelay such an error can carry
RateLimitedByDelay ==
    {CHOOSE e \in RateLimitedErrors : e.delay = d :
        d \in {x.delay : x \in RateLimitedErrors}}

\* the signals an attempt that ended as cls can have seen
SignalsOf(cls) ==
    CASE cls = "Fatal" -> FatalSignals
      [] cls = "Dead" -> DeadSignals
      [] cls = "DailyExhausted" -> DailySignals
      [] cls = "RateLimited" -> RateLimitedSignals
      [] OTHER -> {NoErr}

\* ----------------------------------------------------- credential binding
\* Client handles: OrigClient is the agent's own self.client, built from
\* GEMINI_API_KEY (credential 0 of the pool); k >= 0 is the current_client
\* the router built from credential k.
OrigClient == -1

CredOf(h) == IF h = OrigClient THEN 0 ELSE h

\* Forms of build_request_fn: a lambda closing over a `self` that has a
\* client attribute (every caller in the repository), a lambda closing over
\* a `self` without one, and a callable with no `self` in its closure.
Forms == {"self_with_client", "self_without_client", "no_self"}

\* the form of every call site in the repository: lambda model:
\* self.client.models.generate_content(...)
RepoForms == {"self_with_client"}

\* _extract_self: is an owning object found?
extract_self(form) == form = "self_with_client"

\* mutant of call_with_client: the finally clause is missing
call_with_client_NoRestore(cl, current_client, self_obj) ==
    IF self_obj
    THEN [used |-> current_client, after |-> current_client]
    ELSE [used |-> cl, after |-> cl]

\* _call_with_client: the handle the unit of work runs with and the handle
\* the agent holds afterwards, on return and on raise alike.
call_with_client(cl, current_client, self_obj) ==
    IF self_obj
    THEN [used |-> current_client, after |-> cl]
    ELSE [used |-> cl, after |-> cl]

\* ----------------------------------------------------------------- router
ModelChain(models) == IF models = <<>> THEN FALLBACK_MODELS ELSE models

\* the `available` list computed before the loops start
Available(st, nkeys, chain) ==
    {<<ki, i>> \in (0..(nkeys - 1)) \X (1..Len(chain)) :
        ~is_exhausted(st, ki, chain[i])}

NoPair == [key_idx |-> -1, pos |-> 0]

\* mutant of Scan: the is_exhausted test of the model loop is missing
RECURSIVE Scan_NoSkip(_, _, _, _, _, _)
Scan_NoSkip(st, nkeys, chain, bad, ki, i) ==
    IF ki >= nkeys THEN NoPair
    ELSE IF ki \in bad \/ i > Len(chain) THEN Scan_NoSkip(st, nkeys, chain, bad, ki + 1, 1)
    ELSE [key_idx |-> ki, pos |-> i]

\* mutant of Scan: an exhausted pair ends the model loop (break for continue),
\* so the later models of that key are passed over
RECURSIVE Scan_BreakOnExhausted(_, _, _, _, _, _)
Scan_BreakOnExhausted(st, nkeys, chain, bad, ki, i) ==
    IF ki >= nkeys THEN NoPair
    ELSE IF ki \in bad \/ i > Len(chain)
         THEN Scan_BreakOnExhausted(st, nkeys, chain, bad, ki + 1, 1)
    ELSE IF is_exhausted(st, ki, chain[i])
         THEN Scan_BreakOnExhausted(st, nkeys, chain, bad, ki + 1, 1)
    ELSE [key_idx |-> ki, pos |-> i]

\* mutant of Scan: a key whose client could not be built is not skipped
RECURSIVE Scan_IgnoreBad(_, _, _, _, _, _)
Scan_IgnoreBad(st, nkeys, chain, bad, ki, i) ==
    IF ki >= nkeys THEN NoPair
    ELSE IF i > Len(chain) THEN Scan_IgnoreBad(st, nkeys, chain, bad, ki + 1, 1)
    ELSE IF is_exhausted(st, ki, chain[i]) THEN Scan_IgnoreBad(st, nkeys, chain, bad, ki, i + 1)
    ELSE [key_idx |-> ki, pos |-> i]

\* The two nested loops from position (ki, i) on: a key whose client could
\* not be built is skipped whole, an exhausted pair is skipped, and the
\* first pair left is the next one attempted.
RECURSIVE Scan(_, _, _, _, _, _)
Scan(st, nkeys, chain, bad, ki, i) ==
    IF ki >= nkeys THEN NoPair
    ELSE IF ki \in bad \/ i > Len(chain) THEN Scan(st, nkeys, chain, bad, ki + 1, 1)
    ELSE IF is_exhausted(st, ki, chain[i]) THEN Scan(st, nkeys, chain, bad, ki, i + 1)
    ELSE [key_idx |-> ki, pos |-> i]

\* locals of a call that is not running
IdleRt ==
    [model_chain |-> <<>>, max_retries |-> 0, bad |-> {},
     key_idx |-> -1, pos |-> 0, attempt |-> 0,
     calls |-> 0, pair_calls |-> 0, sleeps |-> 0, self_obj |-> FALSE]

NoLast ==
    [cls |-> "none", key_idx |-> -1, pos |-> 0, model |-> "", attempt |-> 0,
     pair_calls |-> 0, sleeps |-> 0, wait |-> -1, marked |-> FALSE,
     err |-> NoErr, delay |-> -1, used |-> OrigClient]

NoOutcome == [kind |-> "none", sum |-> NoSummary]

\* ------------------------------------------------------------------- Init
Init ==
    /\ today = 1
    /\ quota_file \in {MissingFile, CorruptFile, UnusableFile}
    /\ quota_state = [p \in Procs |-> Fresh(0)]
    /\ pc = [p \in Procs |-> "off"]
    /\ api_keys = [p \in Procs |-> 0]
    /\ rt = [p \in Procs |-> IdleRt]
    /\ outcome = [p \in Procs |-> NoOutcome]
    /\ last = [p \in Procs |-> NoLast]
    /\ store_io = [p \in Procs |-> {}]
    /\ ncalls = 0
    /\ markedToday = {}
    /\ nStarts = 0
    /\ client = [p \in Procs |-> OrigClient]
    /\ environ = [p \in Procs |-> NoEnv]
    /\ keys = [p \in Procs |-> <<>>]

\* ---------------------------------------------------------------- actions
\* UTC midnight passes.
Tick ==
    /\ today < MaxDay
    /\ today' = today + 1
    /\ markedToday' = {}
    /\ UNCHANGED <<environ, keys, client, quota_file, quota_state, pc, api_keys, rt, outcome, last,
                   store_io, ncalls, nStarts>>

\* `python main.py [--reset]` in an environment drawn from envs: importing
\* agents.gemini_utils builds _quota_state (which loads the file), then
\* --reset removes the file.  api_keys and keys are what _load_api_keys
\* gives in this process whenever it is called.
StartWith(p, envs) ==
    /\ pc[p] = "off"
    /\ nStarts < MaxStarts
    /\ ~LoadFails(quota_file)
    /\ \E env \in envs, reset \in BOOLEAN :
        /\ environ' = [environ EXCEPT ![p] = env]
        /\ keys' = [keys EXCEPT ![p] = load_api_keys(env)]
        /\ api_keys' = [api_keys EXCEPT ![p] = Len(load_api_keys(env))]
        /\ quota_state' = [quota_state EXCEPT ![p] = Load(quota_file, today)]
        /\ quota_file' = IF reset THEN MissingFile ELSE quota_file
        /\ store_io' = [store_io EXCEPT ![p] =
                IF reset /\ quota_file.kind # "missing"
                THEN {"read", "remove"} ELSE {"read"}]
        /\ markedToday' = IF reset THEN {} ELSE markedToday
    /\ pc' = [pc EXCEPT ![p] = "idle"]
    /\ rt' = [rt EXCEPT ![p] = IdleRt]
    /\ outcome' = [outcome EXCEPT ![p] = NoOutcome]
    /\ last' = [last EXCEPT ![p] = NoLast]
    /\ nStarts' = nStarts + 1
    /\ UNCHANGED <<client, today, ncalls>>

\* a launch with 0 .. MaxKeys different keys configured
Start(p) ==
    /\ pc[p] = "off"
    /\ StartWith(p, KeyedEnvs)

\* `python main.py ...` when _load raises: the import of agents.gemini_utils
\* fails, so the process dies before --reset is looked at.
StartCrash(p) ==
    /\ pc[p] = "off"
    /\ nStarts < MaxStarts
    /\ LoadFails(quota_file)
    /\ outcome' = [outcome EXCEPT ![p] = [kind |-> "LoadError", sum |-> NoSummary]]
    /\ store_io' = [store_io EXCEPT ![p] = {"read"}]
    /\ nStarts' = nStarts + 1
    /\ UNCHANGED <<environ, keys, client, today, quota_file, quota_state, pc, api_keys, rt, last,
                   ncalls, markedToday>>

\* The process ends between two calls.
Exit(p) ==
    /\ pc[p] = "idle"
    /\ pc' = [pc EXCEPT ![p] = "off"]
    /\ quota_state' = [quota_state EXCEPT ![p] = Fresh(0)]
    /\ api_keys' = [api_keys EXCEPT ![p] = 0]
    /\ environ' = [environ EXCEPT ![p] = NoEnv]
    /\ keys' = [keys EXCEPT ![p] = <<>>]
    /\ rt' = [rt EXCEPT ![p] = IdleRt]
    /\ outcome' = [outcome EXCEPT ![p] = NoOutcome]
    /\ last' = [last EXCEPT ![p] = NoLast]
    /\ store_io' = [store_io EXCEPT ![p] = {}]
    /\ UNCHANGED <<client, today, quota_file, ncalls, markedToday, nStarts>>

\* A call ends: back to the caller with the given outcome.
Finish(p, kind, sum) ==
    /\ pc' = [pc EXCEPT ![p] = "idle"]
    /\ outcome' = [outcome EXCEPT ![p] = [kind |-> kind, sum |-> sum]]

\* gemini_with_retry with no key configured: _load_api_keys raises.
CallNoKeys(p) ==
    /\ pc[p] = "idle"
    /\ ncalls < MaxCalls
    /\ api_keys[p] = 0
    /\ Finish(p, "ConfigurationError", NoSummary)
    /\ rt' = [rt EXCEPT ![p] = IdleRt]
    /\ last' = [last EXCEPT ![p] = NoLast]
    /\ ncalls' = ncalls + 1
    /\ UNCHANGED <<environ, keys, client, today, quota_file, quota_state, api_keys, store_io,
                   markedToday, nStarts>>

\* gemini_with_retry finding no available pair before the loops.
CallExhausted(p) ==
    /\ pc[p] = "idle"
    /\ ncalls < MaxCalls
    /\ api_keys[p] > 0
    /\ \E models \in ChainArgs :
        /\ Available(quota_state[p], api_keys[p], ModelChain(models)) = {}
        /\ Finish(p, "AllExhausted",
                  summary(quota_state[p], api_keys[p], ModelChain(models)))
        /\ rt' = [rt EXCEPT ![p] = [IdleRt EXCEPT !.model_chain = ModelChain(models)]]
    /\ last' = [last EXCEPT ![p] = NoLast]
    /\ ncalls' = ncalls + 1
    /\ UNCHANGED <<environ, keys, client, today, quota_file, quota_state, api_keys, store_io,
                   markedToday, nStarts>>

\* gemini_with_retry entering the loops, with max_retries drawn from
\* retries and build_request_fn from forms; `bad` is the set of keys for
\* which genai.Client(api_key=...) raises during this call.
CallWith(p, retries, forms) ==
    /\ pc[p] = "idle"
    /\ ncalls < MaxCalls
    /\ api_keys[p] > 0
    /\ \E models \in ChainArgs, max_retries \in retries,
          bad \in SUBSET (0..(api_keys[p] - 1)), build_request_fn \in forms :
        LET chain == ModelChain(models)
            first == Scan(quota_state[p], api_keys[p], chain, bad, 0, 1)
            loc == [IdleRt EXCEPT !.model_chain = chain,
                                  !.max_retries = max_retries,
                                  !.bad = bad,
                                  !.self_obj = extract_self(build_request_fn)]
        IN  /\ Available(quota_state[p], api_keys[p], chain) # {}
            /\ IF first = NoPair
               THEN /\ Finish(p, "AllExhausted",
                              summary(quota_state[p], api_keys[p], chain))
                    /\ rt' = [rt EXCEPT ![p] = loc]
               ELSE /\ pc' = [pc EXCEPT ![p] = "run"]
                    /\ outcome' = [outcome EXCEPT ![p] = NoOutcome]
                    /\ rt' = [rt EXCEPT ![p] =
                            [loc EXCEPT !.key_idx = first.key_idx,
                                        !.pos = first.pos,
                                        !.attempt = 1]]
    /\ last' = [last EXCEPT ![p] = NoLast]
    /\ ncalls' = ncalls + 1
    /\ UNCHANGED <<environ, keys, client, today, quota_file, quota_state, api_keys, store_io,
                   markedToday, nStarts>>

\* gemini_with_retry as the repository's agents call it
CallLoop(p) ==
    /\ pc[p] = "idle"
    /\ CallWith(p, RetryArgs, RepoForms)

CurModel(p) == rt[p].model_chain[rt[p].pos]

\* what every attempt records: the pair it ran on, the loop's attempt
\* number, the calls and sleeps made on the pair so far, how it ended, the
\* sleep that follows (-1: none) and whether the pair was marked.
\* The unit of work runs through _call_with_client; delay is the
\* retryDelay the handler parsed (-1: none, or not looked for).
CalledWith(p, cls, wait, marked, delay) ==
    LET c == call_with_client(client[p], rt[p].key_idx, rt[p].self_obj)
    IN  /\ \E s \in SignalsOf(cls) :
            last' = [last EXCEPT ![p] =
                [cls |-> cls, key_idx |-> rt[p].key_idx, pos |-> rt[p].pos,
                 model |-> CurModel(p), attempt |-> rt[p].attempt,
                 pair_calls |-> rt[p].pair_calls + 1,
                 sleeps |-> IF wait >= 0 THEN rt[p].sleeps + 1 ELSE rt[p].sleeps,
                 wait |-> wait, marked |-> marked,
                 err |-> s, delay |-> delay, used |-> c.used]]
        /\ client' = [client EXCEPT ![p] = c.after]

Called(p, cls, wait, marked) == CalledWith(p, cls, wait, marked, -1)

\* mutant of AttemptSuccess: the pair is marked before the payload is returned
AttemptSuccess_Marks(p) ==
    /\ pc[p] = "run"
    /\ Called(p, "ok", -1, FALSE)
    /\ Finish(p, "payload", NoSummary)
    /\ rt' = [rt EXCEPT ![p].calls = @ + 1, ![p].pair_calls = @ + 1]
    /\ quota_state' = [quota_state EXCEPT ![p] =
            mark_exhausted(@, rt[p].key_idx, CurModel(p))]
    /\ quota_file' = mark_file(quota_file, quota_state[p], rt[p].key_idx, CurModel(p))
    /\ UNCHANGED <<environ, keys, today, api_keys, store_io, ncalls, markedToday, nStarts>>

\* _call_with_client returns: the payload is returned at once.
AttemptSuccess(p) ==
    /\ pc[p] = "run"
    /\ Called(p, "ok", -1, FALSE)
    /\ Finish(p, "payload", NoSummary)
    /\ rt' = [rt EXCEPT ![p].calls = @ + 1, ![p].pair_calls = @ + 1]
    /\ UNCHANGED <<environ, keys, today, quota_file, quota_state, api_keys, store_io,
                   ncalls, markedToday, nStarts>>

\* mutant of AttemptFatal: the pair is marked before the error is re-raised
AttemptFatal_Marks(p) ==
    /\ pc[p] = "run"
    /\ FatalErrors # {}
    /\ Called(p, "Fatal", -1, FALSE)
    /\ Finish(p, "Fatal", NoSummary)
    /\ rt' = [rt EXCEPT ![p].calls = @ + 1, ![p].pair_calls = @ + 1]
    /\ quota_state' = [quota_state EXCEPT ![p] =
            mark_exhausted(@, rt[p].key_idx, CurModel(p))]
    /\ quota_file' = mark_file(quota_file, quota_state[p], rt[p].key_idx, CurModel(p))
    /\ UNCHANGED <<environ, keys, today, api_keys, store_io, ncalls, markedToday, nStarts>>

\* Non-quota error: re-raised at once.
AttemptFatal(p) ==
    /\ pc[p] = "run"
    /\ FatalErrors # {}
    /\ Called(p, "Fatal", -1, FALSE)
    /\ Finish(p, "Fatal", NoSummary)
    /\ rt' = [rt EXCEPT ![p].calls = @ + 1, ![p].pair_calls = @ + 1]
    /\ UNCHANGED <<environ, keys, today, quota_file, quota_state, api_keys, store_io,
                   ncalls, markedToday, nStarts>>

\* mutant of MarkAndAdvance: the last model of the chain is marked for the
\* key as well, whether or not it was attempted
MarkAndAdvance_WholeKey(p) ==
    LET r == rt[p]
        st == mark_exhausted(mark_exhausted(quota_state[p], r.key_idx, CurModel(p)),
                              r.key_idx, r.model_chain[Len(r.model_chain)])
        nxt == Scan(st, api_keys[p], r.model_chain, r.bad, r.key_idx, r.pos + 1)
    IN  /\ quota_state' = [quota_state EXCEPT ![p] = st]
        /\ quota_file' = IF st = quota_state[p] THEN quota_file ELSE Save(st)
        /\ store_io' = [store_io EXCEPT ![p] =
                IF is_exhausted(quota_state[p], r.key_idx, CurModel(p))
                THEN @ ELSE @ \cup {"write"}]
        /\ markedToday' = markedToday \cup {<<r.key_idx, CurModel(p)>>}
        /\ IF nxt = NoPair
           THEN /\ Finish(p, "AllExhausted", summary(st, api_keys[p], r.model_chain))
                /\ rt' = [rt EXCEPT ![p].calls = @ + 1, ![p].pair_calls = @ + 1]
           ELSE /\ rt' = [rt EXCEPT ![p].calls = @ + 1,
                                    ![p].pair_calls = 0,
                                    ![p].sleeps = 0,
                                    ![p].attempt = 1,
                                    ![p].key_idx = nxt.key_idx,
                                    ![p].pos = nxt.pos]
                /\ UNCHANGED <<pc, outcome>>

\* The current pair is marked and the loops go on from the next model; when
\* they run out the final RuntimeError is raised.
MarkAndAdvance(p) ==
    LET r == rt[p]
        st == mark_exhausted(quota_state[p], r.key_idx, CurModel(p))
        nxt == Scan(st, api_keys[p], r.model_chain, r.bad, r.key_idx, r.pos + 1)
    IN  /\ quota_state' = [quota_state EXCEPT ![p] = st]
        /\ quota_file' = mark_file(quota_file, quota_state[p], r.key_idx, CurModel(p))
        /\ store_io' = [store_io EXCEPT ![p] =
                IF is_exhausted(quota_state[p], r.key_idx, CurModel(p))
                THEN @ ELSE @ \cup {"write"}]
        /\ markedToday' = markedToday \cup {<<r.key_idx, CurModel(p)>>}
        /\ IF nxt = NoPair
           THEN /\ Finish(p, "AllExhausted", summary(st, api_keys[p], r.model_chain))
                /\ rt' = [rt EXCEPT ![p].calls = @ + 1, ![p].pair_calls = @ + 1]
           ELSE /\ rt' = [rt EXCEPT ![p].calls = @ + 1,
                                    ![p].pair_calls = 0,
                                    ![p].sleeps = 0,
                                    ![p].attempt = 1,
                                    ![p].key_idx = nxt.key_idx,
                                    ![p].pos = nxt.pos]
                /\ UNCHANGED <<pc, outcome>>

\* mutant of AttemptDead: the break is missing, so the attempt loop goes on
\* with the same pair while attempts are left
AttemptDead_NoBreak(p) ==
    /\ pc[p] = "run"
    /\ DeadErrors # {}
    /\ Called(p, "Dead", -1, TRUE)
    /\ IF rt[p].attempt < rt[p].max_retries
       THEN /\ quota_state' = [quota_state EXCEPT ![p] =
                    mark_exhausted(@, rt[p].key_idx, CurModel(p))]
            /\ quota_file' = mark_file(quota_file, quota_state[p],
                                       rt[p].key_idx, CurModel(p))
            /\ rt' = [rt EXCEPT ![p].calls = @ + 1, ![p].pair_calls = @ + 1,
                                ![p].attempt = @ + 1]
            /\ UNCHANGED <<pc, outcome, store_io, markedToday>>
       ELSE MarkAndAdvance(p)
    /\ UNCHANGED <<environ, keys, today, api_keys, ncalls, nStarts>>

\* 404 / NOT_FOUND: mark, break.
AttemptDead(p) ==
    /\ pc[p] = "run"
    /\ DeadErrors # {}
    /\ Called(p, "Dead", -1, TRUE)
    /\ MarkAndAdvance(p)
    /\ UNCHANGED <<environ, keys, today, api_keys, ncalls, nStarts>>

\* Daily quota exhausted: mark, break.
AttemptDaily(p) ==
    /\ pc[p] = "run"
    /\ DailyErrors # {}
    /\ Called(p, "DailyExhausted", -1, TRUE)
    /\ MarkAndAdvance(p)
    /\ UNCHANGED <<environ, keys, today, api_keys, ncalls, nStarts>>

\* mutant of AttemptRetry: the pair is marked at every rate-limited failure
AttemptRetry_Marks(p) ==
    /\ pc[p] = "run"
    /\ rt[p].attempt < rt[p].max_retries
    /\ \E e \in RateLimitedByDelay :
        CalledWith(p, "RateLimited", Wait(e, rt[p].attempt), FALSE, e.delay)
    /\ rt' = [rt EXCEPT ![p].calls = @ + 1, ![p].pair_calls = @ + 1,
                        ![p].sleeps = @ + 1, ![p].attempt = @ + 1]
    /\ quota_state' = [quota_state EXCEPT ![p] =
            mark_exhausted(@, rt[p].key_idx, CurModel(p))]
    /\ quota_file' = mark_file(quota_file, quota_state[p], rt[p].key_idx, CurModel(p))
    /\ UNCHANGED <<environ, keys, today, pc, api_keys, outcome,
                   store_io, ncalls, markedToday, nStarts>>

\* mutant of AttemptRetry: the attempt number is not advanced
AttemptRetry_SameAttempt(p) ==
    /\ pc[p] = "run"
    /\ rt[p].attempt < rt[p].max_retries
    /\ \E e \in RateLimitedByDelay :
        CalledWith(p, "RateLimited", Wait(e, rt[p].attempt), FALSE, e.delay)
    /\ rt' = [rt EXCEPT ![p].calls = @ + 1, ![p].pair_calls = @ + 1,
                        ![p].sleeps = @ + 1]
    /\ UNCHANGED <<environ, keys, today, quota_file, quota_state, pc, api_keys, outcome,
                   store_io, ncalls, markedToday, nStarts>>

\* Per-minute rate limit with attempts left: sleep, then the same pair again.
AttemptRetry(p) ==
    /\ pc[p] = "run"
    /\ rt[p].attempt < rt[p].max_retries
    /\ \E e \in RateLimitedByDelay :
        CalledWith(p, "RateLimited", Wait(e, rt[p].attempt), FALSE, e.delay)
    /\ rt' = [rt EXCEPT ![p].calls = @ + 1, ![p].pair_calls = @ + 1,
                        ![p].sleeps = @ + 1, ![p].attempt = @ + 1]
    /\ UNCHANGED <<environ, keys, today, quota_file, quota_state, pc, api_keys, outcome,
                   store_io, ncalls, markedToday, nStarts>>

\* mutant of AttemptRetriesSpent: the last attempt is taken to be the one
\* before max_retries
AttemptRetriesSpent_OffByOne(p) ==
    /\ pc[p] = "run"
    /\ ~(rt[p].attempt < rt[p].max_retries - 1)
    /\ RateLimitedErrors # {}
    /\ Called(p, "RateLimited", -1, TRUE)
    /\ MarkAndAdvance(p)
    /\ UNCHANGED <<environ, keys, today, api_keys, ncalls, nStarts>>

\* Per-minute rate limit on the last attempt: mark, next model.
AttemptRetriesSpent(p) ==
    /\ pc[p] = "run"
    /\ ~(rt[p].attempt < rt[p].max_retries)
    /\ RateLimitedErrors # {}
    /\ Called(p, "RateLimited", -1, TRUE)
    /\ MarkAndAdvance(p)
    /\ UNCHANGED <<environ, keys, today, api_keys, ncalls, nStarts>>

\* mutant of Report: the state is reloaded from the file before it is shown
Report_Reloads(p) ==
    /\ pc[p] = "idle"
    /\ outcome' = [outcome EXCEPT ![p] =
            IF api_keys[p] = 0
            THEN [kind |-> "ReportConfigurationError", sum |-> NoSummary]
            ELSE [kind |-> "report",
                  sum |-> summary(quota_state[p], api_keys[p], FALLBACK_MODELS)]]
    /\ quota_state' = [quota_state EXCEPT ![p] = Load(quota_file, today)]
    /\ UNCHANGED <<environ, keys, client, today, quota_file, pc, api_keys, rt, last,
                   store_io, ncalls, markedToday, nStarts>>

\* print_quota_status: the summary for the default chain (the per-pair
\* lines are is_exhausted of each pair); raises when no key is configured.
Report(p) ==
    /\ pc[p] = "idle"
    /\ outcome' = [outcome EXCEPT ![p] =
            IF api_keys[p] = 0
            THEN [kind |-> "ReportConfigurationError", sum |-> NoSummary]
            ELSE [kind |-> "report",
                  sum |-> summary(quota_state[p], api_keys[p], FALLBACK_MODELS)]]
    /\ UNCHANGED <<environ, keys, client, today, quota_file, quota_state, pc, api_keys, rt, last,
                   store_io, ncalls, markedToday, nStarts>>

Step(p) ==
    \/ Start(p)
    \/ StartCrash(p)
    \/ Exit(p)
    \/ Report(p)
    \/ CallNoKeys(p)
    \/ CallExhausted(p)
    \/ CallLoop(p)
    \/ AttemptSuccess(p)
    \/ AttemptFatal(p)
    \/ AttemptDead(p)
    \/ AttemptDaily(p)
    \/ AttemptRetry(p)
    \/ AttemptRetriesSpent(p)

Next == Tick \/ \E p \in SeqProcs : Step(p)

Spec == Init /\ [][Next]_vars

\* ------------------------------------------------ one process that goes on
\* One attempt of the running call: the unit of work returns or raises, and
\* the handler acts on it.
Attempt(p) ==
    \/ AttemptSuccess(p)
    \/ AttemptFatal(p)
    \/ AttemptDead(p)
    \/ AttemptDaily(p)
    \/ AttemptRetry(p)
    \/ AttemptRetriesSpent(p)

LiveNext ==
    \E p \in SeqProcs :
        \/ Start(p)
        \/ StartCrash(p)
        \/ CallNoKeys(p)
        \/ CallExhausted(p)
        \/ CallLoop(p)
        \/ Attempt(p)

\* The unit of work always returns or raises, and sleeps end: a running call
\* takes its next attempt.
LiveSpec ==
    /\ Init
    /\ [][LiveNext]_vars
    /\ \A p \in SeqProcs : WF_vars(Attempt(p))

\* ------------------------------------------- any form of build_request_fn
\* gemini_with_retry called with a build_request_fn of any form.
CallAny(p) ==
    /\ pc[p] = "idle"
    /\ CallWith(p, RetryArgs, Forms)

ClientNext ==
    \E p \in SeqProcs :
        \/ Start(p)
        \/ StartCrash(p)
        \/ CallAny(p)
        \/ AttemptSuccess(p)
        \/ AttemptFatal(p)
        \/ AttemptDead(p)
        \/ AttemptDaily(p)
        \/ AttemptRetry(p)
        \/ AttemptRetriesSpent(p)

ClientSpec == Init /\ [][ClientNext]_vars

\* ------------------------------------------ calls with a larger max_retries
\* gemini_with_retry(..., max_retries=MaxDeepRetries): enough attempts on one
\* pair for several waits in a row.
CallDeep(p) ==
    /\ pc[p] = "idle"
    /\ CallWith(p, {MaxDeepRetries}, RepoForms)

BackoffNext ==
    \E p \in SeqProcs :
        \/ Start(p)
        \/ StartCrash(p)
        \/ CallNoKeys(p)
        \/ CallExhausted(p)
        \/ CallDeep(p)
        \/ AttemptSuccess(p)
        \/ AttemptFatal(p)
        \/ AttemptDead(p)
        \/ AttemptDaily(p)
        \/ AttemptRetry(p)
        \/ AttemptRetriesSpent(p)

BackoffSpec == Init /\ [][BackoffNext]_vars

\* ------------------------------------------------------ any environment
\* a launch in an environment whose first MaxSlots slots hold anything
StartAnyEnv(p) ==
    /\ pc[p] = "off"
    /\ StartWith(p, Envs)

KeysNext ==
    \E p \in SeqProcs :
        \/ StartAnyEnv(p)
        \/ StartCrash(p)
        \/ Exit(p)
        \/ Report(p)
        \/ CallNoKeys(p)

KeysSpec == Init /\ [][KeysNext]_vars

\* ------------------------------------------------- the store used directly
\* _quota_state.mark_exhausted(key_index, model) called with any pair, as
\* the store's interface allows; `last` records the pair and whether it
\* was already there.
MarkAny(p) ==
    /\ pc[p] = "idle"
    /\ ncalls < MaxMarks
    /\ \E key_index \in 0..(MaxKeys - 1), model \in Range(FALLBACK_MODELS) :
        /\ quota_state' = [quota_state EXCEPT ![p] =
                mark_exhausted(@, key_index, model)]
        /\ quota_file' = mark_file(quota_file, quota_state[p], key_index, model)
        /\ store_io' = [store_io EXCEPT ![p] =
                IF is_exhausted(quota_state[p], key_index, model)
                THEN @ ELSE @ \cup {"write"}]
        /\ markedToday' = markedToday \cup {<<key_index, model>>}
        /\ last' = [last EXCEPT ![p] =
                [NoLast EXCEPT !.cls = "mark", !.key_idx = key_index,
                               !.model = model,
                               !.marked = ~is_exhausted(quota_state[p], key_index, model)]]
    /\ ncalls' = ncalls + 1
    /\ UNCHANGED <<environ, keys, client, today, pc, api_keys, rt, outcome, nStarts>>

StoreNext ==
    \/ Tick
    \/ \E p \in SeqProcs : Start(p) \/ StartCrash(p) \/ Exit(p) \/ MarkAny(p)

StoreSpec == Init /\ [][StoreNext]_vars

\* ------------------------------------------- two processes, one quota file
\* Two `python main.py ...` processes alive at once; each has its own
\* _quota_state and both use data/quota_state.json.  What their calls do to
\* the store is a mark_exhausted now and then.
ConcNext ==
    \E p \in Procs : Start(p) \/ StartCrash(p) \/ MarkAny(p)

ConcSpec == Init /\ [][ConcNext]_vars

\* ------------------------------------------- the save, one step at a time
\* mark_exhausted up to and including `open(QUOTA_STATE_FILE, "w")` of
\* _save: the entry is appended in memory and the file is truncated (an
\* empty or half-written file does not parse: it reads as CorruptFile).
\* An already marked pair saves nothing.
MarkBegin(p) ==
    /\ pc[p] = "idle"
    /\ ncalls < MaxMarks
    /\ \E key_index \in 0..(MaxKeys - 1), model \in Range(FALLBACK_MODELS) :
        LET old == is_exhausted(quota_state[p], key_index, model)
        IN  /\ quota_state' = [quota_state EXCEPT ![p] =
                    mark_exhausted(@, key_index, model)]
            /\ quota_file' = IF old THEN quota_file ELSE CorruptFile
            /\ pc' = [pc EXCEPT ![p] = IF old THEN "idle" ELSE "save"]
            /\ store_io' = [store_io EXCEPT ![p] =
                    IF old THEN @ ELSE @ \cup {"write"}]
            /\ markedToday' = markedToday \cup {<<key_index, model>>}
            /\ last' = [last EXCEPT ![p] =
                    [NoLast EXCEPT !.cls = "mark", !.key_idx = key_index,
                                   !.model = model, !.marked = ~old]]
    /\ ncalls' = ncalls + 1
    /\ UNCHANGED <<environ, keys, client, today, api_keys, rt, outcome, nStarts>>

\* _save from json.dump to the close of the file: the state is on disk.
SaveDump(p) ==
    /\ pc[p] = "save"
    /\ quota_file' = Save(quota_state[p])
    /\ pc' = [pc EXCEPT ![p] = "idle"]
    /\ UNCHANGED <<environ, keys, client, today, quota_state, api_keys, rt, outcome, last, store_io,
                   ncalls, markedToday, nStarts>>

\* The process is killed inside _save, between the open and the dump.
Crash(p) ==
    /\ pc[p] = "save"
    /\ pc' = [pc EXCEPT ![p] = "off"]
    /\ quota_state' = [quota_state EXCEPT ![p] = Fresh(0)]
    /\ api_keys' = [api_keys EXCEPT ![p] = 0]
    /\ environ' = [environ EXCEPT ![p] = NoEnv]
    /\ keys' = [keys EXCEPT ![p] = <<>>]
    /\ rt' = [rt EXCEPT ![p] = IdleRt]
    /\ outcome' = [outcome EXCEPT ![p] = NoOutcome]
    /\ last' = [last EXCEPT ![p] = NoLast]
    /\ store_io' = [store_io EXCEPT ![p] = {}]
    /\ UNCHANGED <<client, today, quota_file, ncalls, markedToday, nStarts>>

CrashNext ==
    \/ Tick
    \/ \E p \in SeqProcs :
        \/ Start(p) \/ StartCrash(p) \/ Exit(p)
        \/ MarkBegin(p) \/ SaveDump(p) \/ Crash(p)

CrashSpec == Init /\ [][CrashNext]_vars

\* ------------------------------------------------------ shared vocabulary
\* p makes one underlying call (one attempt on its current pair) in this step
AttemptStep(p) == pc[p] = "run" /\ rt'[p].calls = rt[p].calls + 1

\* p enters gemini_with_retry in this step
CallStep(p) == pc[p] = "idle" /\ ncalls' = ncalls + 1

CurPair(p) == <<rt[p].key_idx, CurModel(p)>>

CurPos(p) == <<rt[p].key_idx, rt[p].pos>>

\* priority order on (credential index, position in the chain)
Before(a, b) == a[1] < b[1] \/ (a[1] = b[1] /\ a[2] < b[2])

\* every (credential, chain position) of pool x chain
AllPos(nkeys, chain) == (0..(nkeys - 1)) \X (1..Len(chain))

\* positions of pool x chain that are still open: not exhausted, and of a
\* credential outside `bad`
Open(st, nkeys, chain, bad) ==
    {q \in AllPos(nkeys, chain) :
        q[1] \notin bad /\ ~is_exhausted(st, q[1], chain[q[2]])}

\* q is the first open position that comes after position `after`
IsNextOpen(q, after, st, nkeys, chain, bad) ==
    /\ q \in Open(st, nkeys, chain, bad)
    /\ Before(after, q)
    /\ \A r \in Open(st, nkeys, chain, bad) :
        Before(after, r) => (r = q \/ Before(q, r))

\* ---------------------------------------------------------------- claims
\* C1: within one UTC day, once a pair has been marked exhausted no later
\* call attempts it again, in the same process or in a fresh process that
\* loads the persisted file.  (Fails: a process imported before midnight
\* saves its marks under yesterday's date, so a fresh process discards them.)
C1_NoAttemptOnPairMarkedToday ==
    [][\A p \in Procs : AttemptStep(p) => CurPair(p) \notin markedToday]_vars

\* C3: an attempt that fails as Fatal ends the call at once with that error,
\* and leaves the exhausted set, in memory and on disk, as it was.
C3_FatalAbortsWithoutMarking ==
    [][\A p \in Procs :
        (AttemptStep(p) /\ last'[p].cls = "Fatal") =>
            /\ pc'[p] = "idle"
            /\ outcome'[p].kind = "Fatal"
            /\ quota_state'[p] = quota_state[p]
            /\ quota_file' = quota_file
            /\ ~last'[p].marked]_vars

\* C3 witness: a Fatal error on a later pair, after an earlier pair was marked.
C3_Witness ==
    \E p \in Procs :
        /\ outcome[p].kind = "Fatal"
        /\ last[p].cls = "Fatal"
        /\ rt[p].calls >= 2
        /\ Len(quota_state[p].exhausted) >= 1
        /\ ~is_exhausted(quota_state[p], last[p].key_idx, last[p].model)

\* C4: an attempt that succeeds ends the call at once with the payload; the
\* successful pair is not in the exhausted set and nothing is written.
C4_SuccessReturnsAtOnce ==
    [][\A p \in Procs :
        (AttemptStep(p) /\ last'[p].cls = "ok") =>
            /\ pc'[p] = "idle"
            /\ outcome'[p].kind = "payload"
            /\ ~is_exhausted(quota_state'[p], rt[p].key_idx, CurModel(p))
            /\ quota_state'[p] = quota_state[p]
            /\ quota_file' = quota_file]_vars

\* C4 witness: a payload returned by a fallback pair, with later pairs left
\* untried.
C4_Witness ==
    \E p \in Procs :
        /\ outcome[p].kind = "payload"
        /\ last[p].cls = "ok"
        /\ rt[p].calls >= 2
        /\ \E q \in AllPos(api_keys[p], rt[p].model_chain) :
            /\ Before(<<last[p].key_idx, last[p].pos>>, q)
            /\ ~is_exhausted(quota_state[p], q[1], rt[p].model_chain[q[2]])

\* C5: a call made when every pair of pool x chain is exhausted raises
\* all-exhausted with zero underlying calls and a summary of 0 available out
\* of keys x models.  (Fails: summary subtracts the length of the whole
\* exhausted list, entries outside pool x chain included.)
C5_AllExhaustedReportsZeroOfTotal ==
    [][\A p \in Procs :
        (/\ CallStep(p)
         /\ api_keys[p] > 0
         /\ Available(quota_state[p], api_keys[p], rt'[p].model_chain) = {}) =>
            /\ pc'[p] = "idle"
            /\ outcome'[p].kind = "AllExhausted"
            /\ rt'[p].calls = 0
            /\ outcome'[p].sum.available = 0
            /\ outcome'[p].sum.total = api_keys[p] * Len(rt'[p].model_chain)]_vars

\* C2 as stated: within a call the attempted pairs ascend in (credential,
\* chain position) order; with an empty exhausted set the first attempted
\* pair is (credential 0, model 0), and if that fails as Dead the second is
\* (credential 0, model 1).  (Fails: a credential whose client cannot be
\* built is passed over, so the first attempt can be on a later credential.)
C2_Original ==
    [][\A p \in Procs :
        /\ (pc[p] = "run" /\ pc'[p] = "run") =>
                (CurPos(p)' = CurPos(p) \/ Before(CurPos(p), CurPos(p)'))
        /\ (CallStep(p) /\ pc'[p] = "run" /\ quota_state[p].exhausted = <<>>) =>
                CurPos(p)' = <<0, 1>>
        /\ (/\ AttemptStep(p) /\ rt[p].calls = 0 /\ CurPos(p) = <<0, 1>>
            /\ quota_state[p].exhausted = <<>> /\ last'[p].cls = "Dead") =>
                (pc'[p] = "run" /\ CurPos(p)' = <<0, 2>>)]_vars

\* C2 amended: attempted pairs ascend in (credential, chain position) order;
\* each newly selected pair is the first pair after the previous one that is
\* neither exhausted nor of a credential whose client could not be built;
\* with an empty exhausted set the first attempted pair is (credential 0,
\* model 0) when credential 0's client is built, and if that fails as Dead
\* the second is (credential 0, model 1).
C2_AscendingOrder ==
    [][\A p \in Procs :
        /\ (pc[p] = "run" /\ pc'[p] = "run") =>
                (CurPos(p)' = CurPos(p) \/ Before(CurPos(p), CurPos(p)'))
        /\ (pc[p] = "run" /\ pc'[p] = "run" /\ CurPos(p)' # CurPos(p)) =>
                IsNextOpen(CurPos(p)', CurPos(p), quota_state'[p], api_keys[p],
                           rt[p].model_chain, rt[p].bad)
        /\ (CallStep(p) /\ pc'[p] = "run") =>
                IsNextOpen(CurPos(p)', <<0, 0>>, quota_state[p], api_keys[p],
                           rt'[p].model_chain, rt'[p].bad)
        /\ (/\ CallStep(p) /\ pc'[p] = "run" /\ quota_state[p].exhausted = <<>>
            /\ 0 \notin rt'[p].bad) =>
                CurPos(p)' = <<0, 1>>
        /\ (/\ AttemptStep(p) /\ rt[p].calls = 0 /\ CurPos(p) = <<0, 1>>
            /\ quota_state[p].exhausted = <<>> /\ last'[p].cls = "Dead") =>
                (pc'[p] = "run" /\ CurPos(p)' = <<0, 2>>)]_vars

\* C2 witness: from an empty set, (0, model 0) failed as Dead and the call
\* now stands on (0, model 1).
C2_Witness ==
    \E p \in Procs :
        /\ pc[p] = "run"
        /\ rt[p].calls = 1
        /\ last[p].cls = "Dead"
        /\ <<last[p].key_idx, last[p].pos>> = <<0, 1>>
        /\ CurPos(p) = <<0, 2>>
        /\ Len(quota_state[p].exhausted) = 1

\* C6 as stated: a DailyExhausted failure on P is the only call P receives,
\* P is added to the exhausted set, and the next attempt is on the next
\* non-exhausted pair in priority order; if P was the first attempt and the
\* next pair succeeds, 2 calls were made and the file lists exactly P.
\* (Fails: the failure can follow rate-limited attempts on P, and credentials
\* whose client cannot be built are passed over.)
C6_Original ==
    [][\A p \in Procs :
        /\ (AttemptStep(p) /\ last'[p].cls = "DailyExhausted") =>
            /\ last'[p].pair_calls = 1
            /\ is_exhausted(quota_state'[p], rt[p].key_idx, CurModel(p))
            /\ pc'[p] = "run" =>
                    IsNextOpen(CurPos(p)', CurPos(p), quota_state'[p],
                               api_keys[p], rt[p].model_chain, {})
        /\ (/\ AttemptStep(p) /\ last'[p].cls = "ok" /\ rt[p].calls = 1
            /\ last[p].cls = "DailyExhausted"
            /\ Len(quota_state[p].exhausted) = 1) =>
            /\ rt'[p].calls = 2
            /\ quota_file'.kind = "ok"
            /\ quota_file'.exhausted = <<<<last[p].key_idx, last[p].model>>>>]_vars

\* C6 amended: a DailyExhausted failure on P is the last call P receives in
\* the call, P is added to the exhausted set in memory and on disk, and the
\* next attempt is on the next pair in priority order that is neither
\* exhausted nor of a credential whose client could not be built; if P was
\* the first attempt, on an empty state, and the next pair succeeds, 2 calls
\* were made and the file lists exactly P.
C6_DailyMarksAndAdvances ==
    [][\A p \in Procs :
        /\ (AttemptStep(p) /\ last'[p].cls = "DailyExhausted") =>
            /\ last'[p].pair_calls <= rt[p].max_retries
            /\ last'[p].marked
            /\ is_exhausted(quota_state'[p], rt[p].key_idx, CurModel(p))
            /\ quota_file'.kind = "ok"
            /\ <<rt[p].key_idx, CurModel(p)>> \in Range(quota_file'.exhausted)
            /\ pc'[p] = "run" =>
                    /\ Before(CurPos(p), CurPos(p)')
                    /\ IsNextOpen(CurPos(p)', CurPos(p), quota_state'[p],
                                  api_keys[p], rt[p].model_chain, rt[p].bad)
        /\ (/\ AttemptStep(p) /\ last'[p].cls = "ok" /\ rt[p].calls = 1
            /\ last[p].cls = "DailyExhausted"
            /\ Len(quota_state[p].exhausted) = 1) =>
            /\ rt'[p].calls = 2
            /\ quota_file'.kind = "ok"
            /\ quota_file'.exhausted = <<<<last[p].key_idx, last[p].model>>>>]_vars

\* C6 witness: the first attempt failed as DailyExhausted, the file lists
\* exactly that pair and the call stands on the next pair.
C6_Witness ==
    \E p \in Procs :
        /\ pc[p] = "run"
        /\ rt[p].calls = 1
        /\ last[p].cls = "DailyExhausted"
        /\ quota_file.kind = "ok"
        /\ quota_file.exhausted = <<<<last[p].key_idx, last[p].model>>>>
        /\ Before(<<last[p].key_idx, last[p].pos>>, CurPos(p))

\* C7: a Dead failure marks P after that attempt whatever retries were left,
\* P is not attempted again in the call (no attempt is ever made on an
\* exhausted pair, and the set only grows during a call), and the call
\* moves to a later pair or ends all-exhausted.
C7_DeadMarksAndAbandons ==
    [][\A p \in Procs :
        /\ (AttemptStep(p) /\ last'[p].cls = "Dead") =>
            /\ last'[p].marked
            /\ is_exhausted(quota_state'[p], rt[p].key_idx, CurModel(p))
            /\ pc'[p] = "run" => Before(CurPos(p), CurPos(p)')
            /\ pc'[p] # "run" => outcome'[p].kind = "AllExhausted"
        /\ AttemptStep(p) =>
            /\ ~is_exhausted(quota_state[p], rt[p].key_idx, CurModel(p))
            /\ Range(quota_state[p].exhausted) \subseteq Range(quota_state'[p].exhausted)]_vars

\* C7 witness: Dead on a first attempt with a retry still allowed, and the
\* call has moved on.
C7_Witness ==
    \E p \in Procs :
        /\ pc[p] = "run"
        /\ last[p].cls = "Dead"
        /\ last[p].attempt = 1
        /\ rt[p].max_retries >= 2
        /\ rt[p].attempt = 1
        /\ CurPos(p) # <<last[p].key_idx, last[p].pos>>

\* C8: a pair whose attempts all fail as RateLimited gets exactly
\* max_retries calls and max_retries - 1 sleeps, every rate-limited attempt
\* but the last is followed by a sleep and a retry of the same pair, and
\* after the last the pair is marked and the call moves on.
C8_RateLimitedRetriesBounded ==
    [][\A p \in Procs :
        (AttemptStep(p) /\ last'[p].cls = "RateLimited") =>
            /\ last'[p].sleeps <= rt[p].max_retries - 1
            /\ last'[p].pair_calls <= rt[p].max_retries
            /\ IF last'[p].pair_calls = rt[p].max_retries
               THEN /\ last'[p].sleeps = rt[p].max_retries - 1
                    /\ last'[p].marked
                    /\ is_exhausted(quota_state'[p], rt[p].key_idx, CurModel(p))
                    /\ pc'[p] = "run" => Before(CurPos(p), CurPos(p)')
                    /\ pc'[p] # "run" => outcome'[p].kind = "AllExhausted"
               ELSE /\ ~last'[p].marked
                    /\ last'[p].sleeps = last'[p].pair_calls
                    /\ quota_state'[p] = quota_state[p]
                    /\ pc'[p] = "run"
                    /\ CurPos(p)' = CurPos(p)]_vars

\* C8 witness: a pair marked after max_retries = 2 rate-limited calls and one
\* sleep.
C8_Witness ==
    \E p \in Procs :
        /\ last[p].cls = "RateLimited"
        /\ last[p].marked
        /\ rt[p].max_retries = 2
        /\ last[p].pair_calls = 2
        /\ last[p].sleeps = 1
        /\ is_exhausted(quota_state[p], last[p].key_idx, last[p].model)

\* C9: with no credential configured the call raises the configuration
\* error before the process has read or written the quota store.  (Fails:
\* the store is built, and the file read, when the module is imported.)
C9_ConfigErrorBeforeStoreTouched ==
    \A p \in Procs : outcome[p].kind = "ConfigurationError" => store_io[p] = {}

\* C10: a call ends in all-exhausted if and only if, at that moment, every
\* pair of pool x chain is marked exhausted.  (Fails: pairs of a credential
\* whose client could not be built are unmarked when the error is raised.)
C10_AllExhaustedIffAllMarked ==
    \A p \in Procs :
        (pc[p] = "idle" /\ outcome[p].kind \in {"payload", "Fatal", "AllExhausted"}) =>
            (outcome[p].kind = "AllExhausted"
                <=> Available(quota_state[p], api_keys[p], rt[p].model_chain) = {})

\* no genai.Client construction was attempted and failed during p's call:
\* every credential in `bad` had all its pairs exhausted, so it was passed
\* over before its client was built
NoClientFailureMet(p) ==
    \A q \in AllPos(api_keys[p], rt[p].model_chain) :
        q[1] \in rt[p].bad =>
            is_exhausted(quota_state[p], q[1], rt[p].model_chain[q[2]])

QuotaClasses == {"Dead", "DailyExhausted", "RateLimited"}

\* C11: when every failure met during a call is quota-related (no Fatal
\* error, no client that cannot be built), the call returns the payload of
\* the first attempt that succeeds; a quota-related failure ends the call only
\* as all-exhausted, and then no pair of pool x chain is left unexhausted
\* (every pair that was open has been attempted and has failed); and the
\* number of underlying calls is bounded, so the call does end.
C11_QuotaFailuresAbsorbed ==
    [][\A p \in Procs :
        /\ (AttemptStep(p) /\ last'[p].cls = "ok") =>
                (pc'[p] = "idle" /\ outcome'[p].kind = "payload")
        /\ (AttemptStep(p) /\ last'[p].cls \in QuotaClasses /\ pc'[p] # "run") =>
                outcome'[p].kind = "AllExhausted"
        /\ (/\ AttemptStep(p) \/ CallStep(p)
            /\ pc'[p] = "idle"
            /\ outcome'[p].kind = "AllExhausted"
            /\ NoClientFailureMet(p)') =>
                Available(quota_state'[p], api_keys'[p], rt'[p].model_chain) = {}
        /\ AttemptStep(p) =>
                rt'[p].calls <= api_keys[p] * Len(rt[p].model_chain) * rt[p].max_retries]_vars

\* C11 witness: after quota-related failures only, with every client built,
\* the call returned the payload of a pair of the second credential.
C11_Witness ==
    \E p \in Procs :
        /\ outcome[p].kind = "payload"
        /\ last[p].cls = "ok"
        /\ last[p].key_idx = 1
        /\ rt[p].bad = {}
        /\ rt[p].calls >= 4
        /\ Len(quota_state[p].exhausted) >= 3

\* p is launched and its import succeeds in this step
StartStep(p) == pc[p] = "off" /\ pc'[p] = "idle"

\* C12: a file persisted for another UTC day loads as an empty exhausted set
\* stamped with today's date, whatever entries the file holds.
C12_OtherDayLoadsFresh ==
    [][\A p \in Procs :
        (StartStep(p) /\ quota_file.kind = "ok" /\ quota_file.date # today) =>
            quota_state'[p] = [date |-> today, exhausted |-> <<>>]]_vars

\* C12 witness: a process that has only read the file holds an empty state
\* of today while the file holds entries of an earlier day.
C12_Witness ==
    \E p \in Procs :
        /\ pc[p] = "idle"
        /\ store_io[p] = {"read"}
        /\ quota_file.kind = "ok"
        /\ quota_file.date < today
        /\ Len(quota_file.exhausted) >= 1
        /\ quota_state[p] = [date |-> today, exhausted |-> <<>>]

\* C13: whenever a call consults the exhausted set or saves it, the entries
\* it holds are of the current UTC day: a state of another day has been
\* replaced by an empty one before any pair is skipped or any entry saved.
\* (Fails: the date is compared only in _load, at import; a process that
\* lives past midnight keeps yesterday's entries and saves under
\* yesterday's date.)
C13_EntriesBelongToToday ==
    [][\A p \in Procs :
        ((CallStep(p) /\ api_keys[p] > 0) \/ AttemptStep(p)) =>
            /\ quota_state[p].exhausted # <<>> => quota_state[p].date = today
            /\ quota_file' # quota_file => quota_file'.date = today]_vars

\* C14: after `--reset` has removed the quota file, the calls of that run
\* treat every pair as available: the run starts from an empty exhausted
\* set.  (Fails: the state was loaded when agents.gemini_utils was imported,
\* before the file is removed, so the run keeps the entries it read.)
C14_ResetClearsExhausted ==
    \A p \in Procs :
        (pc[p] # "off" /\ "remove" \in store_io[p] /\ "write" \notin store_io[p]) =>
            quota_state[p].exhausted = <<>>

LaunchStep(p) ==
    pc[p] = "off" /\ nStarts' = nStarts + 1 /\ "read" \in store_io'[p]

\* C17: loading from a missing, corrupt or otherwise unusable file never
\* fails and gives today's date with an empty exhausted set.  (Fails: only
\* FileNotFoundError and JSONDecodeError are caught; a file that parses to
\* something other than an object makes _load raise and the import fail.)
C17_UnusableFileLoadsAsEmpty ==
    [][\A p \in Procs :
        (LaunchStep(p) /\ quota_file.kind # "ok") =>
            /\ pc'[p] = "idle"
            /\ quota_state'[p] = [date |-> today, exhausted |-> <<>>]]_vars

IsPrefix(s, t) == Len(s) <= Len(t) /\ SubSeq(t, 1, Len(s)) = s

\* C19: while a process lives, within one UTC day, no step (call, attempt,
\* availability report) removes an entry from its exhausted set: the list
\* before the step is a prefix of the list after it.
C19_ExhaustedOnlyGrows ==
    [][\A p \in Procs :
        (pc[p] # "off" /\ pc'[p] # "off" /\ today' = today) =>
            IsPrefix(quota_state[p].exhausted, quota_state'[p].exhausted)]_vars

\* C19 witness: after two calls that marked pairs and a report, the process
\* still holds the entries.
C19_Witness ==
    \E p \in Procs :
        /\ pc[p] = "idle"
        /\ ncalls >= 2
        /\ outcome[p].kind = "report"
        /\ Len(quota_state[p].exhausted) >= 3
        /\ "write" \in store_io[p]

\* C20: print_quota_status leaves the exhausted set, the state's date, the
\* file and the record of file operations as they were and makes no unit of
\* work call; only its output is new.
C20_ReportHasNoSideEffects ==
    [][\A p \in Procs :
        (/\ pc[p] = "idle" /\ pc'[p] = "idle" /\ ncalls' = ncalls
         /\ outcome'[p].kind \in {"report", "ReportConfigurationError"}) =>
            /\ quota_state'[p] = quota_state[p]
            /\ quota_file' = quota_file
            /\ store_io'[p] = store_io[p]
            /\ rt'[p] = rt[p]
            /\ last'[p] = last[p]]_vars

\* C20 witness: a report made over a non-empty exhausted set that is on disk.
C20_Witness ==
    \E p \in Procs :
        /\ pc[p] = "idle"
        /\ outcome[p].kind = "report"
        /\ outcome[p].sum.exhausted >= 1
        /\ outcome[p].sum.exhausted = Len(quota_state[p].exhausted)
        /\ quota_file.kind = "ok"
        /\ quota_file.exhausted = quota_state[p].exhausted

\* a step in which mark_exhausted is called on the pair recorded in last'
MarkStep(p) ==
    /\ pc[p] = "idle"
    /\ ncalls' = ncalls + 1
    /\ last'[p].cls = "mark"

\* C18: marking a pair that is already in the exhausted list changes
\* neither the in-memory state nor the file, and after any sequence of marks
\* no pair occurs twice in the in-memory list or in the file's list.
C18_MarkIsIdempotent ==
    /\ [][\A p \in Procs :
            (MarkStep(p) /\ <<last'[p].key_idx, last'[p].model>>
                                \in Range(quota_state[p].exhausted)) =>
                /\ quota_state'[p] = quota_state[p]
                /\ quota_file' = quota_file]_vars
    /\ [](\A p \in Procs :
            /\ Cardinality(Range(quota_state[p].exhausted))
                    = Len(quota_state[p].exhausted)
            /\ Cardinality(Range(quota_file.exhausted))
                    = Len(quota_file.exhausted))

\* C18 witness: a pair has just been marked a second time, by a process
\* whose list holds two pairs while the file was removed by the reset.
C18_Witness ==
    \E p \in Procs :
        /\ pc[p] = "idle"
        /\ last[p].cls = "mark"
        /\ ~last[p].marked
        /\ <<last[p].key_idx, last[p].model>> \in Range(quota_state[p].exhausted)
        /\ Len(quota_state[p].exhausted) >= 2
        /\ quota_file.kind = "missing"

\* a step of a save: it begins one, ends one, or the process dies in one
SaveStep(p) == pc[p] = "save" \/ pc'[p] = "save"

\* C16: at every step of a save, what the file loads as afterwards is what
\* it loaded as before the step (the complete previous state) or what the
\* in-memory state being saved loads as (the complete new state), so a
\* crash at any step loses no mark that was on disk.
C16_SaveIsAtomic ==
    [][\A p \in Procs :
        (SaveStep(p) /\ pc'[p] # "off") =>
            Load(quota_file', today) \in
                {Load(quota_file, today), Load(Save(quota_state'[p]), today)}]_vars

\* the chain a summary held in outcome[p] was computed for
SummaryChain(p) ==
    IF outcome[p].kind = "report" THEN FALLBACK_MODELS ELSE rt[p].model_chain

\* C21: whenever a summary has been produced (by the all-exhausted error or
\* by print_quota_status), its available count is the number of pairs of
\* pool x chain that are not exhausted, its exhausted count the number that
\* are, and 0 <= available <= total.  (Fails: summary subtracts the length
\* of the whole list, which also holds pairs of other chains and of keys
\* beyond the present pool.)
C21_SummaryMatchesPairs ==
    \A p \in Procs :
        outcome[p].kind \in {"AllExhausted", "report"} =>
            LET open == Cardinality(Available(quota_state[p], api_keys[p],
                                              SummaryChain(p)))
                sum == outcome[p].sum
            IN  /\ sum.available = open
                /\ sum.exhausted = sum.total - open
                /\ 0 <= sum.available
                /\ sum.available <= sum.total

Classes == {"Dead", "Fatal", "DailyExhausted", "RateLimited"}

\* the category the three signals determine, in priority order
CategoryOf(s) ==
    IF s.nf THEN "Dead"
    ELSE IF ~s.is_quota THEN "Fatal"
    ELSE IF s.is_daily THEN "DailyExhausted"
    ELSE "RateLimited"

\* C22: an attempt whose error carries both the not-found signal and a
\* quota/throttle signal is handled as Dead: the pair is marked by that very
\* attempt, no sleep follows, and the next attempt (if any) is on another
\* pair.
C22_NotFoundWinsOverQuota ==
    [][\A p \in Procs :
        (AttemptStep(p) /\ last'[p].err.nf /\ last'[p].err.is_quota) =>
            /\ last'[p].cls = "Dead"
            /\ last'[p].marked
            /\ last'[p].wait = -1
            /\ rt'[p].sleeps = IF pc'[p] = "run" THEN 0 ELSE rt[p].sleeps
            /\ is_exhausted(quota_state'[p], rt[p].key_idx, CurModel(p))
            /\ pc'[p] = "run" => CurPos(p)' # CurPos(p)]_vars

\* C22 witness: a first attempt met an error with both signals (one of them
\* the daily-quota one); the pair is marked and the call is on the next pair.
C22_Witness ==
    \E p \in Procs :
        /\ pc[p] = "run"
        /\ last[p].cls = "Dead"
        /\ last[p].err = [nf |-> TRUE, is_quota |-> TRUE, is_daily |-> TRUE]
        /\ last[p].attempt = 1
        /\ last[p].pair_calls = 1
        /\ is_exhausted(quota_state[p], last[p].key_idx, last[p].model)
        /\ CurPos(p) # <<last[p].key_idx, last[p].pos>>

\* over all errors: the handler's cascade gives one of the four categories,
\* the one the three signals determine
EveryErrorHasItsCategory ==
    \A e \in Errors :
        /\ Classify(e) \in Classes
        /\ Classify(e) = CategoryOf(Signals(e))

\* C25: every error is given exactly one of the four categories, and the
\* category of a failed attempt is the one its three signals determine:
\* not-found gives Dead; otherwise no quota signal gives Fatal; otherwise
\* the daily signal gives DailyExhausted; otherwise RateLimited.
C25_CategoryIsFunctionOfSignals ==
    [][/\ EveryErrorHasItsCategory
       /\ \A p \in Procs :
            (AttemptStep(p) /\ last'[p].cls # "ok") =>
                /\ last'[p].cls \in Classes
                /\ last'[p].cls = CategoryOf(last'[p].err)]_vars

\* C25 witness: a second attempt on a pair that was rate limited first has
\* failed with the daily signal and been classified DailyExhausted.
C25_Witness ==
    \E p \in Procs :
        /\ last[p].cls = "DailyExhausted"
        /\ last[p].err = [nf |-> FALSE, is_quota |-> TRUE, is_daily |-> TRUE]
        /\ last[p].attempt = 2
        /\ last[p].sleeps = 1
        /\ last[p].marked

\* C26: a RateLimited failure with attempts left changes neither the
\* exhausted set nor the file, and the next attempt is on the same pair with
\* the next attempt number; a RateLimited failure marks the pair exactly
\* when it was the attempt numbered max_retries.
C26_RateLimitedRetriesSamePair ==
    [][\A p \in Procs :
        (AttemptStep(p) /\ last'[p].cls = "RateLimited") =>
            /\ rt[p].attempt < rt[p].max_retries =>
                    /\ pc'[p] = "run"
                    /\ CurPos(p)' = CurPos(p)
                    /\ rt'[p].attempt = rt[p].attempt + 1
                    /\ quota_state'[p] = quota_state[p]
                    /\ quota_file' = quota_file
                    /\ ~last'[p].marked
            /\ last'[p].marked <=> rt[p].attempt = rt[p].max_retries
            /\ last'[p].marked =>
                    is_exhausted(quota_state'[p], rt[p].key_idx, CurModel(p))]_vars

\* C26 witness: a pair already tried once after a rate limit, not marked,
\* with other pairs marked before it in the same call.
C26_Witness ==
    \E p \in Procs :
        /\ pc[p] = "run"
        /\ last[p].cls = "RateLimited"
        /\ ~last[p].marked
        /\ rt[p].attempt = 2
        /\ CurPos(p) = <<last[p].key_idx, last[p].pos>>
        /\ ~is_exhausted(quota_state[p], rt[p].key_idx, CurModel(p))
        /\ quota_state[p].exhausted # <<>>

\* C27: a RateLimited failure with attempts left whose error carries a
\* retryDelay of d seconds is followed by a sleep of max(d, 0) + RetryBuffer
\* seconds, which is longer than d, and then by an attempt on the same pair.
C27_SuggestedDelayIsHonoured ==
    [][\A p \in Procs :
        (/\ AttemptStep(p) /\ last'[p].cls = "RateLimited"
         /\ rt[p].attempt < rt[p].max_retries /\ last'[p].delay >= 0) =>
            /\ last'[p].wait =
                    (IF last'[p].delay > 0 THEN last'[p].delay ELSE 0) + RetryBuffer
            /\ last'[p].wait > last'[p].delay
            /\ RetryBuffer > 0
            /\ rt'[p].sleeps = rt[p].sleeps + 1
            /\ pc'[p] = "run" /\ CurPos(p)' = CurPos(p)]_vars

\* C27 witness: a suggested delay of MaxDelay (5) seconds was slept as 7.
C27_Witness ==
    \E p \in Procs :
        /\ pc[p] = "run"
        /\ last[p].cls = "RateLimited"
        /\ last[p].delay = MaxDelay
        /\ last[p].wait >= MaxDelay
        /\ rt[p].attempt = 2
        /\ rt[p].sleeps = 1
        /\ CurPos(p) = <<last[p].key_idx, last[p].pos>>

\* the wait after attempt n when the error carries no retryDelay
DefaultWait(n) == Wait([delay |-> -1], n)

\* C28: when two rate-limited attempts in a row on the same pair carry no
\* retryDelay, the second default wait is the first multiplied by a constant
\* greater than 1, the ratio of the first two default waits.  (Fails: the
\* default is 10 * attempt, so the waits are 10, 20, 30, ...)
C28_DefaultWaitGrowsGeometrically ==
    [][\A p \in Procs :
        (/\ AttemptStep(p)
         /\ last[p].cls = "RateLimited" /\ last[p].wait >= 0 /\ last[p].delay = -1
         /\ last'[p].cls = "RateLimited" /\ last'[p].wait >= 0 /\ last'[p].delay = -1
         /\ <<last[p].key_idx, last[p].pos>> = CurPos(p)) =>
            /\ DefaultWait(2) > DefaultWait(1)
            /\ last'[p].wait * DefaultWait(1) = last[p].wait * DefaultWait(2)]_vars

CallEnds == {"payload", "Fatal", "ConfigurationError", "AllExhausted"}

\* C23: a call makes at most (keys x models of the chain) x max_retries
\* underlying calls and at most max_retries on one pair; a call with no key
\* ends at once with the configuration error; and every call that entered
\* the loops ends with a payload, a fatal error or all-exhausted.
C23_EveryCallTerminates ==
    /\ [](\A p \in Procs :
            /\ rt[p].calls
                    <= api_keys[p] * Len(rt[p].model_chain) * rt[p].max_retries
            /\ rt[p].pair_calls <= rt[p].max_retries
            /\ last[p].pair_calls <= rt[p].max_retries
            /\ pc[p] = "idle" /\ outcome[p].kind # "none" =>
                    outcome[p].kind \in CallEnds)
    /\ \A p \in Procs :
            (pc[p] = "run") ~> (pc[p] = "idle" /\ outcome[p].kind \in CallEnds)

\* C23 witness: a call over two keys and the default chain ended as
\* all-exhausted after every pair had used all its max_retries = 2 attempts.
C23_Witness ==
    \E p \in Procs :
        /\ pc[p] = "idle"
        /\ outcome[p].kind = "AllExhausted"
        /\ api_keys[p] = 2
        /\ rt[p].max_retries = 2
        /\ rt[p].model_chain = FALLBACK_MODELS
        /\ rt[p].calls = api_keys[p] * Len(rt[p].model_chain) * rt[p].max_retries

\* C29: no attempt, whether it returns a payload or raises, leaves the
\* agent's client handle different from what it was before the attempt, so
\* between calls and after every call the agent holds its original client.
C29_ClientRestoredAfterAttempt ==
    /\ [][\A p \in Procs : AttemptStep(p) => client'[p] = client[p]]_vars
    /\ [](\A p \in Procs : client[p] = OrigClient)

\* C29 witness: a call through an owning object ended by a raised (Fatal)
\* error on an attempt that ran with the client of credential 1, and the
\* agent holds its original client.
C29_Witness ==
    \E p \in Procs :
        /\ pc[p] = "idle"
        /\ outcome[p].kind = "Fatal"
        /\ rt[p].self_obj
        /\ last[p].used = 1
        /\ client[p] = OrigClient

\* C30: every attempt on pair (k, m) runs the unit of work with model m and
\* with a client of credential k, whatever the form of build_request_fn.
\* (Fails: when _extract_self finds no owning object the unit of work runs
\* with whatever client it holds itself, the agent's own.)
C30_AttemptUsesCredentialOfPair ==
    [][\A p \in Procs :
        AttemptStep(p) =>
            /\ last'[p].model = CurModel(p)
            /\ CredOf(last'[p].used) = rt[p].key_idx]_vars

\* C24: a save writes the saving process's own in-memory list and date,
\* whatever the file held, so of two live processes that loaded the same
\* state and marked different pairs the later save drops the other's pair:
\* the lost update of C24_Witness is reachable.
C24_SaveWritesOwnList ==
    [][\A p \in Procs :
        (MarkStep(p) /\ last'[p].marked /\ quota_state'[p] # quota_state[p]) =>
            /\ quota_file' = Save(quota_state'[p])
            /\ \A q \in Procs \ {p} : quota_state'[q] = quota_state[q]]_vars

\* C24 witness: both processes are alive with the same date, each has
\* written, each holds a pair the other does not hold, and the file is the
\* list of one of them: the pair marked by the other is not in the file.
C24_Witness ==
    \E p \in Procs, q \in Procs :
        /\ p # q
        /\ pc[p] = "idle" /\ pc[q] = "idle"
        /\ quota_state[p].date = today /\ quota_state[q].date = today
        /\ "write" \in store_io[p] /\ "write" \in store_io[q]
        /\ Len(quota_state[p].exhausted) = 1
        /\ Len(quota_state[q].exhausted) = 1
        /\ quota_state[p].exhausted # quota_state[q].exhausted
        /\ quota_file = Save(quota_state[q])
        /\ quota_state[p].exhausted[1] \notin Range(quota_file.exhausted)

\* t is v without its leading and trailing whitespace
IsTrimOf(t, v) ==
    \E a \in 0..Len(v), b \in 0..Len(v) :
        /\ a + Len(t) + b = Len(v)
        /\ t = SubSeq(v, a + 1, a + Len(t))
        /\ \A i \in 1..a : v[i] = " "
        /\ \A i \in (Len(v) - b + 1)..Len(v) : v[i] = " "
        /\ t # <<>> => (t[1] # " " /\ t[Len(t)] # " ")

\* the slots of env whose trimmed value is t
SlotsOf(env, t) ==
    {i \in 1..NumSlots : getenv(env, i).set /\ IsTrimOf(t, getenv(env, i).val)}

Min(S) == CHOOSE x \in S : \A y \in S : x <= y

\* ks is the pool that env configures: the trimmed non-empty slot values,
\* each once, in the order of the first slot that holds them
IsPoolOf(ks, env) ==
    /\ \A j \in 1..Len(ks) : ks[j] # <<>> /\ SlotsOf(env, ks[j]) # {}
    /\ \A i \in 1..NumSlots :
        \A n \in 1..Len(getenv(env, i).val), m \in 1..Len(getenv(env, i).val) :
            LET t == SubSeq(getenv(env, i).val, n, m)
            IN  (t # <<>> /\ i \in SlotsOf(env, t)) => t \in Range(ks)
    /\ \A j \in 1..Len(ks), k \in 1..Len(ks) :
        j < k => /\ ks[j] # ks[k]
                 /\ Min(SlotsOf(env, ks[j])) < Min(SlotsOf(env, ks[k]))

\* C31: in every environment the list _load_api_keys gives is the pool the
\* slots configure (trimmed, no empty element, no duplicate, first-seen
\* order), and a gemini_with_retry or print_quota_status call raises the
\* configuration error exactly when that list is empty.
C31_PoolIsTrimmedDedupedSlots ==
    /\ [](\A p \in Procs :
            /\ IsPoolOf(keys[p], environ[p])
            /\ api_keys[p] = Len(keys[p])
            /\ Cardinality(Range(keys[p])) = Len(keys[p]))
    /\ [][\A p \in Procs :
            (pc[p] = "idle" /\ outcome'[p] # outcome[p] /\ pc'[p] # "off") =>
                (outcome'[p].kind \in {"ConfigurationError", "ReportConfigurationError"}
                    <=> keys[p] = <<>>)]_vars

\* C31 witness: slots " a", "a " and "aa" give the pool <<"a", "aa">>, and a
\* report has been printed for it.
C31_Witness ==
    \E p \in Procs :
        /\ pc[p] = "idle"
        /\ outcome[p].kind = "report"
        /\ Len(environ[p]) >= 3
        /\ environ[p][1] = [set |-> TRUE, val |-> <<" ", "a">>]
        /\ environ[p][2] = [set |-> TRUE, val |-> <<"a", " ">>]
        /\ environ[p][3] = [set |-> TRUE, val |-> <<"a", "a">>]
        /\ keys[p] = << <<"a">>, <<"a", "a">> >>

\* the exhausted list or the file changes in this step of p's call
MarksInCall(p) ==
    /\ pc[p] \in {"idle", "run"}
    /\ pc'[p] # "off"
    /\ quota_state'[p] # quota_state[p] \/ (pc[p] = "run" /\ quota_file' # quota_file)

\* C32: during a call the exhausted list and the file change only in the
\* step of an attempt that failed as Dead, as DailyExhausted, or as
\* RateLimited on the attempt numbered max_retries, and the change is that
\* the pair of that attempt, and no other, is appended.
C32_MarksOnlyTheFailedPair ==
    [][\A p \in Procs :
        MarksInCall(p) =>
            /\ AttemptStep(p)
            /\ <<last'[p].key_idx, last'[p].model>> = CurPair(p)
            /\ \/ last'[p].cls \in {"Dead", "DailyExhausted"}
               \/ /\ last'[p].cls = "RateLimited"
                  /\ last'[p].attempt = rt[p].max_retries
            /\ quota_state'[p] =
                    [quota_state[p] EXCEPT !.exhausted = Append(@, CurPair(p))]
            /\ quota_file' = Save(quota_state'[p])]_vars

\* C32 witness: a running call has marked the first model of key 0 and is on
\* the second; the third model and key 1 are open and unmarked.
C32_Witness ==
    \E p \in Procs :
        /\ pc[p] = "run"
        /\ last[p].marked
        /\ api_keys[p] = 2
        /\ Len(rt[p].model_chain) = 3
        /\ CurPos(p) = <<0, 2>>
        /\ quota_state[p].exhausted = << <<0, rt[p].model_chain[1]>> >>

\* C33: a credential whose client cannot be built is never attempted and
\* none of its pairs is marked; entering the call changes neither the state
\* nor the file; and the call goes on with the first open pair of a later
\* credential, ending as all-exhausted only when no such pair is left.
C33_UnbuildableKeyIsSkipped ==
    [][\A p \in Procs :
        /\ AttemptStep(p) => rt[p].key_idx \notin rt[p].bad
        /\ CallStep(p) => (quota_state'[p] = quota_state[p] /\ quota_file' = quota_file)
        /\ (pc[p] \in {"idle", "run"} /\ pc'[p] = "run") =>
                /\ \A e \in Range(quota_state'[p].exhausted) \ Range(quota_state[p].exhausted) :
                        e[1] \notin rt'[p].bad
                /\ rt'[p].key_idx \notin rt'[p].bad
                /\ CurPos(p)' # CurPos(p) =>
                        IsNextOpen(CurPos(p)', IF pc[p] = "idle" THEN <<-1, 0>> ELSE CurPos(p),
                                   quota_state'[p], api_keys[p], rt'[p].model_chain, rt'[p].bad)
        /\ ((CallStep(p) \/ AttemptStep(p)) /\ outcome'[p].kind = "AllExhausted") =>
                \A q \in Open(quota_state'[p], api_keys[p], rt'[p].model_chain, rt'[p].bad) :
                    pc[p] = "run" /\ ~Before(CurPos(p), q)]_vars

\* C33 witness: the client of key 0 cannot be built, none of its pairs is
\* marked, and the call has marked a pair of key 1 and is on the next.
C33_Witness ==
    \E p \in Procs :
        /\ pc[p] = "run"
        /\ rt[p].bad = {0}
        /\ rt[p].key_idx = 1
        /\ rt[p].pos = 2
        /\ last[p].marked
        /\ last[p].key_idx = 1
        /\ quota_state[p].exhausted = << <<1, rt[p].model_chain[1]>> >>

====
